---- MODULE Spec2Model ----
(***************************************************************************)
(* Chain specification resolver (crates/common/src/types.rs) and the       *)
(* PbsError timeout predicate (crates/common/src/pbs/error.rs).            *)
(*                                                                         *)
(* Strings are sequences of one-character strings.  A u64 / u32 is its     *)
(* canonical sequence of decimal digits, most significant first, so that   *)
(* the full 64-bit range (and the overflow of an addition) is exact.       *)
(***************************************************************************)
EXTENDS Integers, Sequences, FiniteSets, TLC

\* ------------------------------------------------------------ bounds

\* Longest genesis_fork_version byte string offered to the decoders.
MaxFvLen == 5

\* ------------------------------------------------- unsigned integers

Rev(s) == [i \in 1..Len(s) |-> s[Len(s) + 1 - i]]

RECURSIVE Norm(_)
\* Canonical form: no leading zero, the number zero is <<0>>.
Norm(d) ==
  IF Len(d) <= 1 THEN (IF d = <<>> THEN <<0>> ELSE d)
  ELSE IF Head(d) = 0 THEN Norm(Tail(d)) ELSE d

RECURSIVE ToDigits(_)
ToDigits(n) == IF n < 10 THEN <<n>> ELSE Append(ToDigits(n \div 10), n % 10)

\* a <= b, for canonical digit sequences.
LeqDigits(a, b) ==
  \/ Len(a) < Len(b)
  \/ /\ Len(a) = Len(b)
     /\ \A i \in 1..Len(a) : (\A j \in 1..(i - 1) : a[j] = b[j]) => a[i] <= b[i]

RECURSIVE AddLE(_, _, _)
\* Schoolbook addition, least significant digit first.
AddLE(a, b, c) ==
  IF a = <<>> /\ b = <<>> THEN (IF c = 0 THEN <<>> ELSE <<c>>)
  ELSE LET x == IF a = <<>> THEN 0 ELSE Head(a)
           y == IF b = <<>> THEN 0 ELSE Head(b)
           s == x + y + c
       IN  <<s % 10>> \o AddLE(IF a = <<>> THEN a ELSE Tail(a),
                               IF b = <<>> THEN b ELSE Tail(b), s \div 10)

\* The mathematical sum of two naturals.
AddDigits(a, b) == Norm(Rev(AddLE(Rev(a), Rev(b), 0)))

RECURSIVE SubLE(_, _, _)
\* Schoolbook subtraction a - b (a >= b), least significant digit first.
SubLE(a, b, borrow) ==
  IF a = <<>> THEN <<>>
  ELSE LET y == IF b = <<>> THEN 0 ELSE Head(b)
           s == Head(a) - y - borrow
       IN  <<IF s < 0 THEN s + 10 ELSE s>>
             \o SubLE(Tail(a), IF b = <<>> THEN b ELSE Tail(b),
                      IF s < 0 THEN 1 ELSE 0)

SubDigits(a, b) == Norm(Rev(SubLE(Rev(a), Rev(b), 0)))

RECURSIVE DivBE(_, _, _)
\* Long division of a digit sequence by a small k: [q |-> digits, r |-> rem].
DivBE(d, k, rem) ==
  IF d = <<>> THEN [q |-> <<>>, r |-> rem]
  ELSE LET cur  == rem * 10 + Head(d)
           rest == DivBE(Tail(d), k, cur % k)
       IN  [q |-> <<cur \div k>> \o rest.q, r |-> rest.r]

DivDigits(d, k) == Norm(DivBE(d, k, 0).q)
ModDigits(d, k) == DivBE(d, k, 0).r

\* u64::MAX = 2^64 - 1 and u32::MAX = 2^32 - 1.
U64MAX == <<1,8,4,4,6,7,4,4,0,7,3,7,0,9,5,5,1,6,1,5>>
U32MAX == <<4,2,9,4,9,6,7,2,9,5>>
TWO64  == AddDigits(U64MAX, <<1>>)

IsU64(d) == LeqDigits(d, U64MAX)
IsU32(d) == LeqDigits(d, U32MAX)

\* ------------------------------------------------------------ strings

HexChars == <<"0","1","2","3","4","5","6","7","8","9","a","b","c","d","e","f">>
UpperHex == <<"A","B","C","D","E","F">>
DecChars == {HexChars[i] : i \in 1..10}

IsHexChar(c) == (\E i \in 1..16 : HexChars[i] = c) \/ (\E i \in 1..6 : UpperHex[i] = c)

HexVal(c) ==
  IF \E i \in 1..16 : HexChars[i] = c
  THEN (CHOOSE i \in 1..16 : HexChars[i] = c) - 1
  ELSE (CHOOSE i \in 1..6 : UpperHex[i] = c) + 9

DecVal(c) == (CHOOSE i \in 1..10 : HexChars[i] = c) - 1

\* Display of an unsigned integer: its decimal digits.
FormatU64(d) == [i \in 1..Len(d) |-> HexChars[d[i] + 1]]

Ok(v)  == [tag |-> "Ok", val |-> v]
Err(e) == [tag |-> "Err", err |-> e]

\* str::parse::<u64>: an optional leading "+", then one or more decimal
\* digits (leading zeros allowed) whose value fits 64 bits.
ParseU64(s) ==
  LET body == IF s # <<>> /\ Head(s) = "+" THEN Tail(s) ELSE s
  IN  IF body = <<>> \/ \E i \in 1..Len(body) : body[i] \notin DecChars
      THEN Err([kind |-> "ParseIntError"])
      ELSE LET n == Norm([i \in 1..Len(body) |-> DecVal(body[i])])
           IN  IF IsU64(n) THEN Ok(n) ELSE Err([kind |-> "ParseIntError"])

\* hex::encode_prefixed: "0x" and two lower-case digits per byte.
hex_encode_prefixed(bytes) ==
  <<"0", "x">> \o
  [i \in 1..(2 * Len(bytes)) |->
     LET b == bytes[(i + 1) \div 2]
     IN  IF i % 2 = 1 THEN HexChars[(b \div 16) + 1] ELSE HexChars[(b % 16) + 1]]

\* hex::decode: the "0x" prefix is optional, the digits come in pairs and in
\* either case.
hex_decode(s) ==
  LET body == IF Len(s) >= 2 /\ s[1] = "0" /\ s[2] = "x" THEN SubSeq(s, 3, Len(s)) ELSE s
  IN  IF Len(body) % 2 = 1 \/ \E i \in 1..Len(body) : ~IsHexChar(body[i])
      THEN Err([kind |-> "FromHexError"])
      ELSE Ok([i \in 1..(Len(body) \div 2) |->
                 16 * HexVal(body[2 * i - 1]) + HexVal(body[2 * i])])

\* u32::to_be_bytes: most significant byte first.
to_be_bytes(n) ==
  LET q1 == DivDigits(n, 256)
      q2 == DivDigits(q1, 256)
      q3 == DivDigits(q2, 256)
  IN  <<ModDigits(q3, 256), ModDigits(q2, 256), ModDigits(q1, 256), ModDigits(n, 256)>>


\* ---------------------------------------------------- serde data model

\* A value of a self-describing, human-readable format (TOML, JSON, YAML):
\* a string, an unsigned integer, a table.
VStr(s) == [t |-> "str", s |-> s]
VInt(n) == [t |-> "int", n |-> n]
VMap(m) == [t |-> "map", m |-> m]

None == [tag |-> "None"]
Panic == [tag |-> "Panic"]

\* ------------------------------------------------- Chain and KnownChain

\* The names of the known chains, as written and as aliased.
MAINNET_UC == <<"M","a","i","n","n","e","t">>
MAINNET_LC == <<"m","a","i","n","n","e","t">>
HOLESKY_UC == <<"H","o","l","e","s","k","y">>
HOLESKY_LC == <<"h","o","l","e","s","k","y">>
HELDER_UC == <<"H","e","l","d","e","r">>
HELDER_LC == <<"h","e","l","d","e","r">>

KnownChains == {"Mainnet", "Holesky", "Helder"}

Custom(g, s, fv) ==
  [variant |-> "Custom", genesis_time_secs |-> g, slot_time_secs |-> s,
   genesis_fork_version |-> fv]

\* impl From<KnownChain> for Chain
Chain_from(known) == [variant |-> known]

KnownChain_genesis_fork_version(k) ==
  CASE k = "Mainnet" -> <<0, 0, 0, 0>>
    [] k = "Holesky" -> <<1, 1, 112, 0>>
    [] k = "Helder"  -> <<16, 0, 0, 0>>

KnownChain_genesis_time_sec(k) ==
  CASE k = "Mainnet" -> ToDigits(1606824023)
    [] k = "Holesky" -> ToDigits(1695902400)
    [] k = "Helder"  -> ToDigits(1718967660)

KnownChain_slot_time_sec(k) == ToDigits(12)

Chain_genesis_fork_version(c) ==
  IF c.variant = "Custom" THEN c.genesis_fork_version
  ELSE KnownChain_genesis_fork_version(c.variant)

Chain_genesis_time_sec(c) ==
  IF c.variant = "Custom" THEN c.genesis_time_secs
  ELSE KnownChain_genesis_time_sec(c.variant)

Chain_slot_time_sec(c) ==
  IF c.variant = "Custom" THEN c.slot_time_secs
  ELSE KnownChain_slot_time_sec(c.variant)

\* #[derive(Serialize)] on KnownChain: a unit variant is written as its name.
KnownChain_name(k) ==
  CASE k = "Mainnet" -> MAINNET_UC
    [] k = "Holesky" -> HOLESKY_UC
    [] k = "Helder"  -> HELDER_UC

\* #[derive(Deserialize)] on KnownChain: the variant's name or its alias.
KnownChain_from_str(s) ==
  CASE s = MAINNET_UC \/ s = MAINNET_LC -> Ok("Mainnet")
    [] s = HOLESKY_UC \/ s = HOLESKY_LC -> Ok("Holesky")
    [] s = HELDER_UC \/ s = HELDER_LC   -> Ok("Helder")
    [] OTHER -> Err([kind |-> "UnknownVariant"])

\* -------------------------------------------------------- ChainLoader

\* The order in which #[serde(untagged)] tries the variants of ChainLoader.
ChainLoaderVariantsPathFirst == <<"Path", "Known", "Custom">>

ChainLoaderVariants == <<"Known", "Path", "Custom">>

CustomFields == {"genesis_time_secs", "slot_time_secs", "genesis_fork_version"}

\* ChainLoader::Known(KnownChain)
DeserializeKnown(v) ==
  IF v.t = "str" THEN KnownChain_from_str(v.s) ELSE Err([kind |-> "InvalidType"])

\* ChainLoader::Path(PathBuf): any string is a path.
DeserializePath(v) ==
  IF v.t = "str" THEN Ok(v.s) ELSE Err([kind |-> "InvalidType"])

IsNativeU64(v) == v.t = "int" /\ IsU64(v.n)
IsNativeU32(v) == v.t = "int" /\ IsU32(v.n)
IsHexBytes(v)  == v.t = "str" /\ hex_decode(v.s).tag = "Ok"

\* ChainLoader::Custom { u64, u64, Bytes }: unknown fields are ignored, the
\* byte string may have any length.
DeserializeCustom(v) ==
  IF /\ v.t = "map"
     /\ CustomFields \subseteq DOMAIN v.m
     /\ IsNativeU64(v.m.genesis_time_secs)
     /\ IsNativeU64(v.m.slot_time_secs)
     /\ IsHexBytes(v.m.genesis_fork_version)
  THEN Ok([genesis_time_secs |-> v.m.genesis_time_secs.n,
           slot_time_secs |-> v.m.slot_time_secs.n,
           genesis_fork_version |-> hex_decode(v.m.genesis_fork_version.s).val])
  ELSE Err([kind |-> "InvalidType"])

DeserializeVariant(name, v) ==
  CASE name = "Known"  -> DeserializeKnown(v)
    [] name = "Path"   -> DeserializePath(v)
    [] name = "Custom" -> DeserializeCustom(v)

\* ChainLoader::serialize (untagged): the variant's content, without a tag.
ChainLoader_serialize(loader) ==
  CASE loader.variant = "Known" -> VStr(KnownChain_name(loader.known))
    [] loader.variant = "Path"  -> VStr(loader.path)
    [] loader.variant = "Custom" ->
         VMap([genesis_time_secs |-> VInt(loader.genesis_time_secs),
              slot_time_secs |-> VInt(loader.slot_time_secs),
              genesis_fork_version |-> VStr(hex_encode_prefixed(loader.genesis_fork_version))])

\* A slip that exchanges the two integer fields of the custom record.
SerializeChainSwapped(c) ==
  ChainLoader_serialize(
    IF c.variant = "Custom"
    THEN [variant |-> "Custom", genesis_time_secs |-> c.slot_time_secs,
          slot_time_secs |-> c.genesis_time_secs,
          genesis_fork_version |-> c.genesis_fork_version]
    ELSE [variant |-> "Known", known |-> c.variant])

\* A slip that writes a custom chain in the string (path) shape.
SerializeChainAsPath(c) ==
  ChainLoader_serialize(
    IF c.variant = "Custom"
    THEN [variant |-> "Path", path |-> hex_encode_prefixed(c.genesis_fork_version)]
    ELSE [variant |-> "Known", known |-> c.variant])

\* impl Serialize for Chain
SerializeChain(c) ==
  ChainLoader_serialize(
    IF c.variant = "Custom"
    THEN [variant |-> "Custom", genesis_time_secs |-> c.genesis_time_secs,
          slot_time_secs |-> c.slot_time_secs,
          genesis_fork_version |-> c.genesis_fork_version]
    ELSE [variant |-> "Known", known |-> c.variant])

\* <[u8; 4]>::try_from(&[u8]), padding or cutting instead of failing.
TryInto4Padding(bytes) ==
  Ok([i \in 1..4 |-> IF i <= Len(bytes) THEN bytes[i] ELSE 0])

\* <[u8; 4]>::try_from(&[u8]): exactly four bytes, or an error.
TryInto4(bytes) ==
  IF Len(bytes) = 4 THEN Ok(bytes) ELSE Err([kind |-> "TryFromSliceError"])

\* serde::de::Error::custom: the error's message, kept.
DeCustom(e) == [kind |-> "Custom", msg |-> e]

MapErrCustom(r) == IF r.tag = "Err" THEN Err(DeCustom(r.err)) ELSE r

\* ------------------------------------------------ load_chain_from_file

\* u64 + u64.  With overflow checks (a debug build) an overflowing sum
\* panics, without them (a release build) it wraps modulo 2^64.
U64Add(a, b, checks) ==
  LET sum == AddDigits(a, b)
  IN  IF IsU64(sum) THEN Ok(sum)
      ELSE IF checks THEN Panic ELSE Ok(SubDigits(sum, TWO64))

SpecFields ==
  {"MIN_GENESIS_TIME", "GENESIS_DELAY", "SECONDS_PER_SLOT", "GENESIS_FORK_VERSION"}

\* serde_utils::quoted_u64: a string holding a decimal u64.
IsQuotedU64(v) == v.t = "str" /\ ParseU64(v.s).tag = "Ok"

\* struct QuotedSpecFile
DecodeQuotedSpecFile(v) ==
  IF /\ v.t = "map"
     /\ SpecFields \subseteq DOMAIN v.m
     /\ IsQuotedU64(v.m.MIN_GENESIS_TIME)
     /\ IsQuotedU64(v.m.GENESIS_DELAY)
     /\ IsQuotedU64(v.m.SECONDS_PER_SLOT)
     /\ IsHexBytes(v.m.GENESIS_FORK_VERSION)
  THEN Ok([min_genesis_time |-> ParseU64(v.m.MIN_GENESIS_TIME.s).val,
           genesis_delay |-> ParseU64(v.m.GENESIS_DELAY.s).val,
           seconds_per_slot |-> ParseU64(v.m.SECONDS_PER_SLOT.s).val,
           genesis_fork_version |-> hex_decode(v.m.GENESIS_FORK_VERSION.s).val])
  ELSE Err([kind |-> "InvalidType"])

\* struct SpecFileJson { data: QuotedSpecFile }
DecodeSpecFileJson(v) ==
  IF v.t = "map" /\ "data" \in DOMAIN v.m /\ DecodeQuotedSpecFile(v.m.data).tag = "Ok"
  THEN Ok([data |-> DecodeQuotedSpecFile(v.m.data).val])
  ELSE Err([kind |-> "InvalidType"])

\* struct SpecFile: native integers, the fork version a u32.
DecodeSpecFile(v) ==
  IF /\ v.t = "map"
     /\ SpecFields \subseteq DOMAIN v.m
     /\ IsNativeU64(v.m.MIN_GENESIS_TIME)
     /\ IsNativeU64(v.m.GENESIS_DELAY)
     /\ IsNativeU64(v.m.SECONDS_PER_SLOT)
     /\ IsNativeU32(v.m.GENESIS_FORK_VERSION)
  THEN Ok([min_genesis_time |-> v.m.MIN_GENESIS_TIME.n,
           genesis_delay |-> v.m.GENESIS_DELAY.n,
           seconds_per_slot |-> v.m.SECONDS_PER_SLOT.n,
           genesis_fork_version |-> v.m.GENESIS_FORK_VERSION.n])
  ELSE Err([kind |-> "InvalidType"])

\* QuotedSpecFile::to_chain: the length check comes first, then the sum.
QuotedSpecFile_to_chain(q, checks) ==
  LET fv  == TryInto4(q.genesis_fork_version)
      sum == U64Add(q.min_genesis_time, q.genesis_delay, checks)
  IN  IF fv.tag = "Err" THEN fv
      ELSE IF sum.tag = "Panic" THEN Panic
      ELSE Ok(Custom(sum.val, q.seconds_per_slot, fv.val))

\* SpecFile::to_chain with the fork version in little-endian byte order.
SpecFile_to_chain_le(f, checks) ==
  LET sum == U64Add(f.min_genesis_time, f.genesis_delay, checks)
  IN  IF sum.tag = "Panic" THEN Panic
      ELSE Ok(Custom(sum.val, f.seconds_per_slot, Rev(to_be_bytes(f.genesis_fork_version))))

\* SpecFile::to_chain
SpecFile_to_chain(f, checks) ==
  LET sum == U64Add(f.min_genesis_time, f.genesis_delay, checks)
  IN  IF sum.tag = "Panic" THEN Panic
      ELSE Ok(Custom(sum.val, f.seconds_per_slot, to_be_bytes(f.genesis_fork_version)))

\* The order in which load_chain_from_file tries the schemas.
SchemaOrderBareFirst == <<"QuotedSpecFile", "SpecFileJson", "SpecFile">>

SchemaOrder == <<"SpecFileJson", "QuotedSpecFile", "SpecFile">>

\* serde_json::from_slice::<T> and serde_yaml::from_slice::<T> on the bytes
\* read: the bytes must be a document of the syntax (a JSON document is
\* also a YAML one) and the document must have the shape of T.
Decode(schema, f) ==
  CASE schema = "SpecFileJson" ->
         IF f.syntax = "json" THEN DecodeSpecFileJson(f.tree)
         ELSE Err([kind |-> "Syntax"])
    [] schema = "QuotedSpecFile" ->
         IF f.syntax = "json" THEN DecodeQuotedSpecFile(f.tree)
         ELSE Err([kind |-> "Syntax"])
    [] schema = "SpecFile" ->
         IF f.syntax \in {"json", "yaml"} THEN DecodeSpecFile(f.tree)
         ELSE Err([kind |-> "Syntax"])

ToChain(schema, d, checks) ==
  CASE schema = "SpecFileJson"   -> QuotedSpecFile_to_chain(d.data, checks)
    [] schema = "QuotedSpecFile" -> QuotedSpecFile_to_chain(d, checks)
    [] schema = "SpecFile"       -> SpecFile_to_chain(d, checks)

\* A loader that moves on to the next schema when to_chain fails.
CommitsIfConverts(schema, f, checks) ==
  /\ Decode(schema, f).tag = "Ok"
  /\ ToChain(schema, Decode(schema, f).val, checks).tag # "Err"

\* `if let Ok(decoded) = ...`: a branch is taken on the decoding alone.
Commits(schema, f, checks) == Decode(schema, f).tag = "Ok"

\* wrap_err(format!("Unable to find chain spec file: {path:?}"))
ReadError(path) == [kind |-> "UnableToFindChainSpecFile", path |-> path]

\* A loader that falls back to a default chain.
BailDefault(path) == Ok(Chain_from("Mainnet"))

\* bail!("unable to decode file: {path:?}, accepted formats are: json or yml")
Bail(path) ==
  Err([kind |-> "UnableToDecodeFile", path |-> path, formats |-> <<"json", "yml">>])

\* ----------------------------------------------------------- PbsError

\* A predicate that takes every transport error for a timeout.
is_timeout_any_reqwest(e) == e.variant = "Reqwest"

\* PbsError::is_timeout
is_timeout(e) == e.variant = "Reqwest" /\ e.reqwest_is_timeout

\* ------------------------------------------------------------ inputs

\* The parameters of a network, as a specification document states them
\* (the fork version as bytes and as the same 32-bit number).
Network(m, d, s, fv, fv32) ==
  [min_genesis_time |-> m, genesis_delay |-> d, seconds_per_slot |-> s,
   genesis_fork_version |-> fv, fork_version_u32 |-> fv32]

HoleskyNetwork ==
  Network(ToDigits(1695902100), ToDigits(300), ToDigits(12),
          <<1, 1, 112, 0>>, ToDigits(16871424))

HelderNetwork ==
  Network(ToDigits(1718967600), ToDigits(60), ToDigits(12),
          <<16, 0, 0, 0>>, ToDigits(268435456))

SmallNetwork ==
  Network(ToDigits(100), ToDigits(50), ToDigits(2), <<1, 0, 0, 0>>, ToDigits(16777216))

\* The sum of the two times is exactly u64::MAX.
EdgeNetwork ==
  Network(SubDigits(U64MAX, ToDigits(50)), ToDigits(50), U64MAX,
          <<255, 255, 255, 255>>, U32MAX)

\* The sum of the two times is 2^64.
OverflowNetwork ==
  Network(U64MAX, ToDigits(1), ToDigits(12), <<0, 0, 0, 0>>, ToDigits(0))

Networks == {HoleskyNetwork, HelderNetwork, SmallNetwork, EdgeNetwork, OverflowNetwork}

NoNetwork == [absent |-> TRUE]

\* The fields of a document in the quoted-decimal schema.
QuotedFields(m, d, s, fv) ==
  [MIN_GENESIS_TIME |-> VStr(FormatU64(m)), GENESIS_DELAY |-> VStr(FormatU64(d)),
   SECONDS_PER_SLOT |-> VStr(FormatU64(s)),
   GENESIS_FORK_VERSION |-> VStr(hex_encode_prefixed(fv))]

\* The fields of a document in the native-integer schema.
NativeFields(m, d, s, fv32) ==
  [MIN_GENESIS_TIME |-> VInt(m), GENESIS_DELAY |-> VInt(d),
   SECONDS_PER_SLOT |-> VInt(s), GENESIS_FORK_VERSION |-> VInt(fv32)]

QuotedOf(n) ==
  QuotedFields(n.min_genesis_time, n.genesis_delay, n.seconds_per_slot,
               n.genesis_fork_version)

NativeOf(n) ==
  NativeFields(n.min_genesis_time, n.genesis_delay, n.seconds_per_slot,
               n.fork_version_u32)

File(syntax, tree) == [exists |-> TRUE, syntax |-> syntax, tree |-> tree]
NoFile == [exists |-> FALSE]

DocKinds == {"data_json", "json", "yml", "native_json"}

\* The document describing network n in each shape.
NetworkDoc(kind, n) ==
  CASE kind = "data_json"   -> File("json", VMap([data |-> VMap(QuotedOf(n))]))
    [] kind = "json"        -> File("json", VMap(QuotedOf(n)))
    [] kind = "yml"         -> File("yaml", VMap(NativeOf(n)))
    [] kind = "native_json" -> File("json", VMap(NativeOf(n)))

FvOfLen(k) == [i \in 1..k |-> i]
BadFvLens == (0..MaxFvLen) \ {4}

\* Quoted fields whose fork version has k bytes.
BadFvFields(k) == QuotedFields(ToDigits(100), ToDigits(50), ToDigits(12), FvOfLen(k))

DIGITS_0100 == <<"0","1","0","0">>
DIGITS_PLUS5 == <<"+","5">>
DIGITS_12S == <<"1","2","s">>

\* Documents that describe no single network: two schemas at once, wrong
\* lengths, wrong types, values out of range, no document at all.
OddFiles ==
     { File("json", VMap([data |-> VMap(BadFvFields(k))])) : k \in BadFvLens }
  \cup { File("json", VMap(BadFvFields(k))) : k \in BadFvLens }
  \cup { File("json", VMap(QuotedOf(SmallNetwork) @@ [data |-> VMap(BadFvFields(k))]))
         : k \in BadFvLens }
  \cup { File("json", VMap(NativeOf(SmallNetwork) @@ [data |-> VMap(BadFvFields(k))]))
         : k \in BadFvLens }
  \cup { File("json", VMap(QuotedOf(SmallNetwork) @@ [data |-> VMap(QuotedOf(HoleskyNetwork))])),
         File("json", VMap(NativeOf(SmallNetwork) @@ [data |-> VMap(QuotedOf(HoleskyNetwork))])),
         File("json", VMap(QuotedOf(SmallNetwork) @@ [data |-> VMap(NativeOf(HoleskyNetwork))])),
         File("json", VMap([data |-> VMap(NativeOf(HoleskyNetwork))])),
         File("json", VMap([data |-> VStr(HOLESKY_LC)])),
         File("yaml", VMap(QuotedOf(HoleskyNetwork))),
         File("yaml", VMap([data |-> VMap(QuotedOf(HoleskyNetwork))])),
         File("json", VMap([MIN_GENESIS_TIME |-> VStr(DIGITS_0100),
                            GENESIS_DELAY |-> VStr(DIGITS_PLUS5),
                            SECONDS_PER_SLOT |-> VStr(FormatU64(ToDigits(12))),
                            GENESIS_FORK_VERSION |-> VStr(<<"0","1","0","1","7","0","0","0">>)])),
         File("json", VMap(QuotedFields(TWO64, ToDigits(0), ToDigits(12), <<0, 0, 0, 0>>))),
         File("json", VMap([MIN_GENESIS_TIME |-> VStr(DIGITS_12S),
                            GENESIS_DELAY |-> VStr(FormatU64(ToDigits(0))),
                            SECONDS_PER_SLOT |-> VStr(FormatU64(ToDigits(12))),
                            GENESIS_FORK_VERSION |-> VStr(hex_encode_prefixed(<<0, 0, 0, 0>>))])),
         File("json", VMap([MIN_GENESIS_TIME |-> VStr(FormatU64(ToDigits(100))),
                            GENESIS_DELAY |-> VStr(FormatU64(ToDigits(50))),
                            GENESIS_FORK_VERSION |-> VStr(hex_encode_prefixed(<<0, 0, 0, 0>>))])),
         File("yaml", VMap(NativeFields(ToDigits(100), ToDigits(50), ToDigits(12),
                                        AddDigits(U32MAX, <<1>>)))),
         File("yaml", VMap(NativeFields(TWO64, ToDigits(50), ToDigits(12), ToDigits(0)))),
         File("yaml", VMap([MIN_GENESIS_TIME |-> VInt(ToDigits(100)),
                            GENESIS_DELAY |-> VInt(ToDigits(50)),
                            SECONDS_PER_SLOT |-> VInt(ToDigits(12)),
                            GENESIS_FORK_VERSION |-> VStr(hex_encode_prefixed(<<0, 0, 0, 0>>))])),
         File("json", VStr(MAINNET_LC)),
         File("none", VStr(<<>>)),
         NoFile }

\* What the path names, and the network it was written for (if one).
DiskCases ==
     { [file |-> NetworkDoc(k, n), network |-> n] : k \in DocKinds, n \in Networks }
  \cup { [file |-> f, network |-> NoNetwork] : f \in OddFiles }

PATH_SPEC_JSON == <<"s","p","e","c",".","j","s","o","n">>
PATH_ALLCAPS == <<"M","A","I","N","N","E","T">>

KnownNameStrings ==
  {MAINNET_UC, MAINNET_LC, HOLESKY_UC, HOLESKY_LC, HELDER_UC, HELDER_LC}

PathStrings ==
  {PATH_SPEC_JSON, PATH_ALLCAPS, <<>>, hex_encode_prefixed(<<1, 0, 0, 0>>)}

InlineRecord(g, s, fvstr) ==
  VMap([genesis_time_secs |-> g, slot_time_secs |-> s, genesis_fork_version |-> fvstr])

\* Inline records: fork versions of every length, with and without the
\* prefix, bad hex, a missing field, wrong types, an integer out of range.
InlineValues ==
     { InlineRecord(VInt(ToDigits(1)), VInt(ToDigits(2)), VStr(hex_encode_prefixed(FvOfLen(k))))
       : k \in 0..MaxFvLen }
  \cup { InlineRecord(VInt(U64MAX), VInt(ToDigits(0)), VStr(hex_encode_prefixed(<<1, 0, 0, 0>>))),
         InlineRecord(VInt(ToDigits(1)), VInt(ToDigits(2)), VStr(<<"0","1","0","0","0","0","F","f">>)),
         InlineRecord(VInt(ToDigits(1)), VInt(ToDigits(2)), VStr(<<"0","x","0","g">>)),
         InlineRecord(VInt(ToDigits(1)), VInt(ToDigits(2)), VStr(<<"0","x","0","1","0">>)),
         InlineRecord(VInt(ToDigits(1)), VInt(ToDigits(2)), VInt(ToDigits(16777216))),
         InlineRecord(VStr(<<"1">>), VInt(ToDigits(2)), VStr(hex_encode_prefixed(<<1, 0, 0, 0>>))),
         InlineRecord(VInt(TWO64), VInt(ToDigits(2)), VStr(hex_encode_prefixed(<<1, 0, 0, 0>>))),
         VMap([genesis_time_secs |-> VInt(ToDigits(1)), slot_time_secs |-> VInt(ToDigits(2))]),
         VMap([genesis_time_secs |-> VInt(ToDigits(1)), slot_time_secs |-> VInt(ToDigits(2)),
               genesis_fork_version |-> VStr(hex_encode_prefixed(<<1, 0, 0, 0>>)),
               name |-> VStr(HOLESKY_LC)]) }

\* The values found under the `chain` key of a configuration.
ConfigValues ==
  {VStr(s) : s \in KnownNameStrings \cup PathStrings} \cup InlineValues \cup {VInt(ToDigits(5))}

\* Chain values a program holds.
ChainSamples ==
     { Chain_from(k) : k \in KnownChains }
  \cup { Custom(g, s, fv) :
           g \in {ToDigits(0), ToDigits(1), ToDigits(1695902400), U64MAX},
           s \in {ToDigits(0), ToDigits(12), U64MAX},
           fv \in {<<0, 0, 0, 0>>, <<1, 1, 112, 0>>, <<16, 0, 0, 0>>, <<255, 255, 255, 255>>} }

ValidationErrors == {"EmptyBlockhash", "BidTooLow", "KzgCommitments", "Sigverify"}

\* Errors the transport layer hands to is_timeout.  reqwest_is_timeout is
\* what reqwest::Error::is_timeout answers for the wrapped error.
PbsErrors ==
     { [variant |-> "Reqwest", reqwest_is_timeout |-> b] : b \in BOOLEAN }
  \cup { [variant |-> v] : v \in {"AxumError", "SerdeDecodeError", "UrlParsing"} }
  \cup { [variant |-> "RelayResponse", code |-> c] : c \in {408, 500, 504} }
  \cup { [variant |-> "PayloadTooLarge", payload_size |-> 10485761] }
  \cup { [variant |-> "Validation", validation |-> v] : v \in ValidationErrors }

\* ------------------------------------------------------------- state

VARIABLES
  overflow_checks,  \* the build: TRUE when integer overflow panics
  pc,               \* where the program is
  wire,             \* the serialized value being written or read
  disk,             \* what the path on the wire names on disk
  network,          \* the network the file on disk was written for
  wrote,            \* the Chain that Serialize wrote to the wire
  vidx,             \* ChainLoader: index of the variant tried next
  loader,           \* the ChainLoader that matched
  reads,            \* files read by this deserialization
  file,             \* load_chain_from_file: the bytes read
  sidx,             \* load_chain_from_file: index of the schema tried next
  decoded,          \* load_chain_from_file: the schema that decoded, and its value
  log,              \* the steps this deserialization has taken
  result,           \* what Chain::deserialize returned
  timeout_call      \* the last call of PbsError::is_timeout

vars ==
  <<overflow_checks, pc, wire, disk, network, wrote, vidx, loader, reads, file,
    sidx, decoded, log, result, timeout_call>>

NoCall == [called |-> FALSE]

Init ==
  /\ overflow_checks \in BOOLEAN
  /\ pc = "idle"
  /\ wire = None
  /\ disk = NoFile
  /\ network = NoNetwork
  /\ wrote = None
  /\ vidx = 0
  /\ loader = None
  /\ reads = 0
  /\ file = None
  /\ sidx = 0
  /\ decoded = None
  /\ log = <<>>
  /\ result = None
  /\ timeout_call = NoCall

\* The locals of a deserialization, as it starts.
StartDeserialize ==
  /\ pc' = "untagged"
  /\ vidx' = 1
  /\ loader' = None
  /\ reads' = 0
  /\ file' = None
  /\ sidx' = 0
  /\ decoded' = None
  /\ log' = <<>>
  /\ result' = None
  /\ timeout_call' = NoCall

\* Chain::deserialize is called on a configuration value.
Deserialize(v, dc) ==
  /\ pc = "idle"
  /\ v = VStr(<<>>) => dc.file = NoFile   \* the empty path names no file
  /\ wire' = v
  /\ disk' = dc.file
  /\ network' = dc.network
  /\ wrote' = None
  /\ StartDeserialize
  /\ UNCHANGED overflow_checks

\* Chain::serialize on a Chain the program holds.
Serialize(c) ==
  /\ pc = "idle"
  /\ wire' = SerializeChain(c)
  /\ wrote' = c
  /\ pc' = "serialized"
  /\ timeout_call' = NoCall
  /\ UNCHANGED <<overflow_checks, disk, network, vidx, loader, reads, file, sidx,
                 decoded, log, result>>

\* Chain::serialize on the Chain a deserialization returned.
SerializeLoaded ==
  /\ pc = "done"
  /\ result.tag = "Ok"
  /\ wire' = SerializeChain(result.val)
  /\ wrote' = result.val
  /\ pc' = "serialized"
  /\ UNCHANGED <<overflow_checks, disk, network, vidx, loader, reads, file, sidx,
                 decoded, log, result, timeout_call>>

\* Chain::deserialize is called on what Serialize wrote.
DeserializeWritten ==
  /\ pc = "serialized"
  /\ StartDeserialize
  /\ UNCHANGED <<overflow_checks, wire, disk, network, wrote>>

\* One variant of the untagged ChainLoader is tried against the value.
TryVariant(name) ==
  /\ pc = "untagged"
  /\ ChainLoaderVariants[vidx] = name
  /\ log' = Append(log, name)
  /\ LET r == DeserializeVariant(name, wire)
     IN  IF r.tag = "Ok"
         THEN /\ loader' = [variant |-> name, val |-> r.val]
              /\ pc' = "match"
              /\ UNCHANGED <<vidx, result>>
         ELSE IF vidx < Len(ChainLoaderVariants)
         THEN /\ vidx' = vidx + 1
              /\ UNCHANGED <<pc, loader, result>>
         ELSE \* data did not match any variant of untagged enum ChainLoader
              /\ result' = Err([kind |-> "NoVariantMatched"])
              /\ pc' = "done"
              /\ UNCHANGED <<vidx, loader>>
  /\ UNCHANGED <<overflow_checks, wire, disk, network, wrote, reads, file, sidx,
                 decoded, timeout_call>>

TryKnown == TryVariant("Known")
TryPath == TryVariant("Path")
TryCustom == TryVariant("Custom")

\* ChainLoader::Known(known) => Ok(Chain::from(known))
MatchKnown ==
  /\ pc = "match"
  /\ loader.variant = "Known"
  /\ result' = Ok(Chain_from(loader.val))
  /\ pc' = "done"
  /\ UNCHANGED <<overflow_checks, wire, disk, network, wrote, vidx, loader, reads,
                 file, sidx, decoded, log, timeout_call>>

\* ChainLoader::Path(path) => load_chain_from_file(path)
MatchPath ==
  /\ pc = "match"
  /\ loader.variant = "Path"
  /\ pc' = "load"
  /\ UNCHANGED <<overflow_checks, wire, disk, network, wrote, vidx, loader, reads,
                 file, sidx, decoded, log, result, timeout_call>>

\* ChainLoader::Custom { .. } => the fork version must be 4 bytes.
MatchCustom ==
  /\ pc = "match"
  /\ loader.variant = "Custom"
  /\ LET fv == TryInto4(loader.val.genesis_fork_version)
     IN  result' = IF fv.tag = "Err" THEN MapErrCustom(fv)
                   ELSE Ok(Custom(loader.val.genesis_time_secs,
                                  loader.val.slot_time_secs, fv.val))
  /\ pc' = "done"
  /\ UNCHANGED <<overflow_checks, wire, disk, network, wrote, vidx, loader, reads,
                 file, sidx, decoded, log, timeout_call>>

\* std::fs::read(&path)
ReadFile ==
  /\ pc = "load"
  /\ reads' = reads + 1
  /\ log' = Append(log, "read")
  /\ IF disk.exists
     THEN /\ file' = disk
          /\ sidx' = 1
          /\ pc' = "decode"
          /\ UNCHANGED result
     ELSE /\ result' = MapErrCustom(Err(ReadError(loader.val)))
          /\ pc' = "done"
          /\ UNCHANGED <<file, sidx>>
  /\ UNCHANGED <<overflow_checks, wire, disk, network, wrote, vidx, loader, decoded,
                 timeout_call>>

\* One branch of the if / else-if chain over the schemas.
TrySchema(schema) ==
  /\ pc = "decode"
  /\ SchemaOrder[sidx] = schema
  /\ log' = Append(log, schema)
  /\ IF Commits(schema, file, overflow_checks)
     THEN /\ decoded' = [schema |-> schema, val |-> Decode(schema, file).val]
          /\ result' = MapErrCustom(ToChain(schema, Decode(schema, file).val,
                                            overflow_checks))
          /\ pc' = "done"
          /\ UNCHANGED sidx
     ELSE IF sidx < Len(SchemaOrder)
     THEN /\ sidx' = sidx + 1
          /\ UNCHANGED <<pc, decoded, result>>
     ELSE /\ pc' = "bail"
          /\ UNCHANGED <<sidx, decoded, result>>
  /\ UNCHANGED <<overflow_checks, wire, disk, network, wrote, vidx, loader, reads,
                 file, timeout_call>>

TrySpecFileJson == TrySchema("SpecFileJson")
TryQuotedSpecFile == TrySchema("QuotedSpecFile")
TrySpecFile == TrySchema("SpecFile")

\* The final else: no schema decoded the file.
BailOut ==
  /\ pc = "bail"
  /\ result' = MapErrCustom(Bail(loader.val))
  /\ pc' = "done"
  /\ UNCHANGED <<overflow_checks, wire, disk, network, wrote, vidx, loader, reads,
                 file, sidx, decoded, log, timeout_call>>

\* The caller takes the result; the next operation starts afresh.
Return ==
  /\ pc = "done"
  /\ pc' = "idle"
  /\ wire' = None
  /\ disk' = NoFile
  /\ network' = NoNetwork
  /\ wrote' = None
  /\ vidx' = 0
  /\ loader' = None
  /\ reads' = 0
  /\ file' = None
  /\ sidx' = 0
  /\ decoded' = None
  /\ log' = <<>>
  /\ result' = None
  /\ UNCHANGED <<overflow_checks, timeout_call>>

\* PbsError::is_timeout is called on an error.
IsTimeout(e) ==
  /\ pc = "idle"
  /\ timeout_call' = [called |-> TRUE, err |-> e, ret |-> is_timeout(e)]
  /\ UNCHANGED <<overflow_checks, pc, wire, disk, network, wrote, vidx, loader,
                 reads, file, sidx, decoded, log, result>>

Next ==
  \/ \E v \in ConfigValues, dc \in DiskCases : Deserialize(v, dc)
  \/ \E c \in ChainSamples : Serialize(c)
  \/ SerializeLoaded
  \/ DeserializeWritten
  \/ TryKnown
  \/ TryPath
  \/ TryCustom
  \/ MatchKnown
  \/ MatchPath
  \/ MatchCustom
  \/ ReadFile
  \/ TrySpecFileJson
  \/ TryQuotedSpecFile
  \/ TrySpecFile
  \/ BailOut
  \/ Return
  \/ \E e \in PbsErrors : IsTimeout(e)

Spec == Init /\ [][Next]_vars

\* ------------------------------------------------------------ claims

Range(q) == {q[i] : i \in 1..Len(q)}

IsPrefix(a, b) == Len(a) <= Len(b) /\ \A i \in 1..Len(a) : a[i] = b[i]

IsVariantStep(e) == e \in {"Known", "Path", "Custom"}
IsFileStep(e) == e \in {"read", "SpecFileJson", "QuotedSpecFile", "SpecFile"}

VariantLog == SelectSeq(log, IsVariantStep)
FileLog == SelectSeq(log, IsFileStep)

IsString(v) == v # None /\ v.t = "str"
IsKnownName(v) == IsString(v) /\ v.s \in KnownNameStrings
LoadedByPath == loader # None /\ loader.variant = "Path"
LoadedInline == loader # None /\ loader.variant = "Custom"
QuotedSchemas == {"SpecFileJson", "QuotedSpecFile"}

\* The chain a known-chain name stands for.
NamedChain(s) ==
  CASE s \in {MAINNET_UC, MAINNET_LC} -> [variant |-> "Mainnet"]
    [] s \in {HOLESKY_UC, HOLESKY_LC} -> [variant |-> "Holesky"]
    [] s \in {HELDER_UC, HELDER_LC}   -> [variant |-> "Helder"]

\* The first schema, in the order data-wrapped JSON, bare JSON, YAML, that
\* decodes the document ("none" when none does).
FirstDecoding(f) ==
  IF Decode("SpecFileJson", f).tag = "Ok" THEN "SpecFileJson"
  ELSE IF Decode("QuotedSpecFile", f).tag = "Ok" THEN "QuotedSpecFile"
  ELSE IF Decode("SpecFile", f).tag = "Ok" THEN "SpecFile"
  ELSE "none"

\* The byte string a quoted schema decoded as the fork version.
QuotedForkVersion(schema, d) ==
  IF schema = "SpecFileJson" THEN d.data.genesis_fork_version
  ELSE d.genesis_fork_version

\* C1: round trip.  Once a Chain that was serialized has been deserialized
\* from what was written, the result is Ok of the very same Chain; and what
\* was written for Mainnet, Holesky, Helder is the network's canonical name.
C1_RoundTrip ==
  /\ (pc = "done" /\ wrote # None) => result = Ok(wrote)
  /\ (pc \in {"serialized", "done"} /\ wrote # None) =>
       /\ wrote.variant = "Mainnet" => wire = VStr(MAINNET_UC)
       /\ wrote.variant = "Holesky" => wire = VStr(HOLESKY_UC)
       /\ wrote.variant = "Helder" => wire = VStr(HELDER_UC)

\* A custom chain with both integers at the ends of the u64 range has made
\* the round trip.
C1_Witness ==
  /\ pc = "done"
  /\ wrote # None
  /\ wrote.variant = "Custom"
  /\ wrote.genesis_time_secs = U64MAX
  /\ wrote.slot_time_secs = <<0>>
  /\ result = Ok(wrote)

\* C2: the shapes are tried in the order known-chain name, path, inline
\* record.  A known-chain name (lower-case spellings included) yields the
\* named variant and no file is read; any other string goes to the file
\* loader, and a failure to load is the result (never the fall-through "no
\* variant matched"); the inline shape is tried for non-strings only.
C2_ShapeOrder ==
  /\ IsPrefix(VariantLog, <<"Known", "Path", "Custom">>)
  /\ "Custom" \in Range(log) => ~IsString(wire)
  /\ IsKnownName(wire) =>
       /\ reads = 0
       /\ Range(log) \subseteq {"Known"}
       /\ pc = "done" => result = Ok(NamedChain(wire.s))
  /\ (IsString(wire) /\ ~IsKnownName(wire) /\ pc = "done") =>
       /\ loader = [variant |-> "Path", val |-> wire.s]
       /\ reads = 1
       /\ result.tag = "Err" =>
            /\ result.err.kind = "Custom"
            /\ result.err.msg.kind \in
                 {"UnableToFindChainSpecFile", "UnableToDecodeFile", "TryFromSliceError"}
       /\ ~disk.exists =>
            result = Err([kind |-> "Custom",
                          msg |-> [kind |-> "UnableToFindChainSpecFile", path |-> wire.s]])

\* A string that is no known-chain name was taken as a path, the file was
\* read and the load failed.
C2_Witness ==
  /\ pc = "done"
  /\ wire = VStr(PATH_ALLCAPS)
  /\ reads = 1
  /\ disk.exists
  /\ result.tag = "Err"
  /\ "Custom" \notin Range(log)

\* C3: a file accepted under any schema yields Chain::Custom, with the
\* document's seconds_per_slot and its 4 fork-version bytes (for YAML the
\* big-endian bytes of the 32-bit number); the chain is the same function of
\* the network's parameters whichever schema the document is written in.
C3_FileYieldsCustom ==
  (pc = "done" /\ decoded # None /\ result.tag = "Ok") =>
    /\ result.val.variant = "Custom"
    /\ decoded.schema \in QuotedSchemas =>
         LET q == IF decoded.schema = "SpecFileJson" THEN decoded.val.data ELSE decoded.val
         IN  /\ result.val.slot_time_secs = q.seconds_per_slot
             /\ result.val.genesis_fork_version = q.genesis_fork_version
    /\ decoded.schema = "SpecFile" =>
         result.val.slot_time_secs = decoded.val.seconds_per_slot
    /\ network # NoNetwork =>
         result.val =
           [variant |-> "Custom",
            genesis_time_secs |->
              U64Add(network.min_genesis_time, network.genesis_delay, overflow_checks).val,
            slot_time_secs |-> network.seconds_per_slot,
            genesis_fork_version |-> network.genesis_fork_version]

\* The YAML document of Holesky has been loaded and gave Chain::Custom with
\* the constants of KnownChain::Holesky.
C3_Witness ==
  /\ pc = "done"
  /\ decoded # None
  /\ decoded.schema = "SpecFile"
  /\ network = HoleskyNetwork
  /\ result = Ok(Custom(KnownChain_genesis_time_sec("Holesky"),
                        KnownChain_slot_time_sec("Holesky"),
                        KnownChain_genesis_fork_version("Holesky")))

\* C4: for every accepted file, genesis_time_secs is the sum
\* min_genesis_time + genesis_delay, for all unsigned 64-bit values.
C4_GenesisIsSum ==
  (pc = "done" /\ decoded # None /\ result.tag = "Ok" /\ network # NoNetwork) =>
    result.val.genesis_time_secs =
      AddDigits(network.min_genesis_time, network.genesis_delay)

\* C5: a fork-version byte string whose decoded length is not 4 makes the
\* deserialization fail, for the inline record and for a file in a
\* quoted-decimal schema; a Chain that is returned has exactly 4 bytes.
C5_WrongLengthFails ==
  /\ (pc = "done" /\ LoadedInline /\ Len(loader.val.genesis_fork_version) # 4) =>
       result.tag = "Err"
  /\ (pc = "done" /\ LoadedByPath /\ disk.exists
        /\ FirstDecoding(disk) \in QuotedSchemas
        /\ Len(QuotedForkVersion(FirstDecoding(disk),
                                 Decode(FirstDecoding(disk), disk).val)) # 4) =>
       result.tag = "Err"
  /\ (result.tag = "Ok" /\ result.val.variant = "Custom") =>
       Len(result.val.genesis_fork_version) = 4

\* An inline record with a 5-byte fork version has been refused.
C5_Witness ==
  /\ pc = "done"
  /\ LoadedInline
  /\ Len(loader.val.genesis_fork_version) = 5
  /\ result.tag = "Err"

\* C6: when the file cannot be read, or decodes under none of the three
\* schemas, the load is an error: for the second case the error names the
\* path and the formats json and yml.  No Chain is returned.
C6_LoadFailureIsError ==
  (pc = "done" /\ LoadedByPath) =>
    /\ ~disk.exists =>
         /\ result.tag = "Err"
         /\ result.err.msg.kind = "UnableToFindChainSpecFile"
    /\ (disk.exists /\ FirstDecoding(disk) = "none") =>
         /\ result.tag = "Err"
         /\ result.err.msg =
              [kind |-> "UnableToDecodeFile", path |-> wire.s, formats |-> <<"json", "yml">>]

\* A readable file that decodes under no schema has been refused.
C6_Witness ==
  /\ pc = "done"
  /\ LoadedByPath
  /\ disk.exists
  /\ FirstDecoding(disk) = "none"
  /\ result.tag = "Err"

\* C7: is_timeout answers true only for a Reqwest error whose wrapped error
\* reports a timeout; false for a Reqwest error that does not, and for
\* every other variant.
C7_IsTimeout ==
  timeout_call.called =>
    /\ timeout_call.ret =>
         (timeout_call.err.variant = "Reqwest" /\ timeout_call.err.reqwest_is_timeout)
    /\ timeout_call.err.variant \in
         {"AxumError", "SerdeDecodeError", "RelayResponse", "PayloadTooLarge",
          "Validation", "UrlParsing"} => ~timeout_call.ret
    /\ (timeout_call.err.variant = "Reqwest" /\ ~timeout_call.err.reqwest_is_timeout) =>
         ~timeout_call.ret
    /\ (timeout_call.err.variant = "Reqwest" /\ timeout_call.err.reqwest_is_timeout) =>
         timeout_call.ret

\* is_timeout was asked about a transport error that is no timeout.
C7_Witness ==
  /\ timeout_call.called
  /\ timeout_call.err = [variant |-> "Reqwest", reqwest_is_timeout |-> FALSE]
  /\ ~timeout_call.ret

\* Whether v is the inline custom record: the three fields, two integers
\* and a string.
IsInlineCustomRecord(v) ==
  /\ v.t = "map"
  /\ DOMAIN v.m = CustomFields
  /\ v.m.genesis_time_secs.t = "int"
  /\ v.m.slot_time_secs.t = "int"
  /\ v.m.genesis_fork_version.t = "str"

\* C8: every step that serializes a Chain, wherever the Chain came from,
\* writes a known-chain name (Mainnet, Holesky, Helder) or the inline custom
\* record (Custom), never a path, and leaves the file on disk as it was.
C8_WriteShapes ==
  [][(pc' = "serialized" /\ pc # "serialized") =>
       /\ disk' = disk
       /\ IF wrote'.variant = "Custom"
          THEN IsInlineCustomRecord(wire')
          ELSE wire' \in {VStr(MAINNET_UC), VStr(HOLESKY_UC), VStr(HELDER_UC)}]_vars

\* A custom chain that was loaded from a file by path has been serialized.
C8_Witness ==
  /\ pc = "serialized"
  /\ LoadedByPath
  /\ decoded # None
  /\ wrote.variant = "Custom"
  /\ wire.t = "map"

\* C9: the file is read once, before any decoding; the schemas are tried
\* in the order data-wrapped JSON, bare JSON, YAML, each at most once; a
\* schema is tried only when every earlier one failed to decode the file;
\* and the schema the result comes from is the first that decodes it.
C9_SchemaOrder ==
  /\ IsPrefix(FileLog, <<"read", "SpecFileJson", "QuotedSpecFile", "SpecFile">>)
  /\ reads <= 1
  /\ Len(FileLog) >= 1 => reads = 1
  /\ Len(FileLog) >= 2 => file = disk
  /\ "QuotedSpecFile" \in Range(log) => Decode("SpecFileJson", file).tag = "Err"
  /\ "SpecFile" \in Range(log) =>
       /\ Decode("SpecFileJson", file).tag = "Err"
       /\ Decode("QuotedSpecFile", file).tag = "Err"
  /\ (pc = "done" /\ LoadedByPath /\ disk.exists) =>
       IF FirstDecoding(disk) = "none" THEN decoded = None
       ELSE /\ decoded = [schema |-> FirstDecoding(disk),
                          val |-> Decode(FirstDecoding(disk), disk).val]
            /\ log[Len(log)] = FirstDecoding(disk)

\* A document valid under the data-wrapped schema and under the bare schema
\* was loaded, and the data-wrapped schema gave the result.
C9_Witness ==
  /\ pc = "done"
  /\ decoded # None
  /\ decoded.schema = "SpecFileJson"
  /\ Decode("QuotedSpecFile", file).tag = "Ok"
  /\ result.tag = "Ok"
  /\ result.val.genesis_fork_version = <<1, 1, 112, 0>>

\* C10: once a quoted-decimal schema decodes the document the loader is
\* committed to it: a fork version of a length other than 4 is the error
\* returned, and no later schema is tried.
C10_Committed ==
  (/\ pc = "done"
   /\ LoadedByPath
   /\ disk.exists
   /\ FirstDecoding(disk) \in QuotedSchemas
   /\ Len(QuotedForkVersion(FirstDecoding(disk),
                            Decode(FirstDecoding(disk), disk).val)) # 4) =>
    /\ result = Err([kind |-> "Custom", msg |-> [kind |-> "TryFromSliceError"]])
    /\ log[Len(log)] = FirstDecoding(disk)
    /\ decoded # None
    /\ decoded.schema = FirstDecoding(disk)

\* The fork version under `data` has 3 bytes, the top-level fields are a
\* valid bare document, and the load failed without trying the bare schema.
C10_Witness ==
  /\ pc = "done"
  /\ LoadedByPath
  /\ decoded # None
  /\ decoded.schema = "SpecFileJson"
  /\ Len(decoded.val.data.genesis_fork_version) = 3
  /\ Decode("QuotedSpecFile", file).tag = "Ok"
  /\ Len(Decode("QuotedSpecFile", file).val.genesis_fork_version) = 4
  /\ result.tag = "Err"
  /\ "QuotedSpecFile" \notin Range(log)

====
